---- MODULE Spec2Model ----
(***************************************************************************)
(* Technician-Planner.  First the backend: the Task collection            *)
(* (models/task.ts), the Lifecycle Service (taskServices.ts) and the Task  *)
(* API controller (controller/taskController.ts).  The front end follows   *)
(* further down, under its own heading.                                    *)
(*                                                                         *)
(* A handler runs synchronously between two awaits, so one action is one   *)
(* such run.  A persistence call whose answer comes in a later run - the   *)
(* awaited save of a create, the save an update starts without awaiting,   *)
(* the detached find/remove chain of a delete - stays in `inflight` until  *)
(* the database resolves or rejects it.  `inflight` is a set: two calls    *)
(* that are equal in every argument act on the store as one.               *)
(*                                                                         *)
(* save() of a fetched document writes the paths the handler assigned and  *)
(* rejects when the document is gone or a path failed to cast.             *)
(***************************************************************************)
EXTENDS Integers, FiniteSets, Sequences, TLC

\* ---------------------------------------------------------------- bounds
MaxIds == 2          \* documents ever constructed and sent to save()
MaxInFlight == 1     \* persistence calls outstanding at the same time

\* ------------------------------------------------------- values and types
Undefined == "undefined"        \* a field the JSON body / document lacks
NoDate == 0                     \* an absent Date (completedAt?: Date)
BadDate == 0 - 1                \* a value that does not cast to a Date
NoDoc == [missing |-> TRUE]     \* findById found nothing (null)
NoCall == [phase |-> "none"]    \* a scenario that is not being run

Ids == 1 .. MaxIds
Times == {1, 2}                 \* the instants requests carry

TaskTypeEnum == {"Installation", "Repair", "Maintenance", "Inspection"}
StatusEnum == {"Pending", "Completed"}

\* ----------------------------------------------------------- TaskSchema
\* trim: true on customerName
Trim(s) == IF s = "  " THEN "" ELSE s

\* required: true on a String path: undefined and the empty string fail
RequiredStringAllowEmpty(v) == v # Undefined
RequiredString(v) == v # Undefined /\ v # ""

\* required: true on a Date path; a value that does not cast fails too
RequiredDate(v) == v # NoDate /\ v # BadDate

\* enum: [...] lets undefined through, required catches it
InEnum(v, values) == v = Undefined \/ v \in values

\* an optional Date path: absent, or a value that casts
OptionalDate(v) == v # BadDate

\* new Task(data): setters (trim) and defaults (status) are applied
NewTask(data) ==
    [customerName  |-> Trim(data.customerName),
     location      |-> data.location,
     taskType      |-> data.taskType,
     scheduledTime |-> data.scheduledTime,
     notes         |-> data.notes,
     status        |-> IF data.status = Undefined THEN "Pending" ELSE data.status,
     completedAt   |-> data.completedAt]

\* task.validateSync(): TRUE when some path fails (a ValidationError is
\* returned), FALSE when the document is valid (undefined is returned)
ValidateSync(task) ==
    \/ ~RequiredString(task.customerName)
    \/ ~RequiredString(task.location)
    \/ ~RequiredString(task.taskType)
    \/ ~InEnum(task.taskType, TaskTypeEnum)
    \/ ~RequiredDate(task.scheduledTime)
    \/ ~InEnum(task.status, StatusEnum)
    \/ ~OptionalDate(task.completedAt)

\* ------------------------------------------------------------ controller
\* const { customerName, location, taskType, scheduledTime, notes } = req.body
PassWholeBody(body) == body
PickFields(body) ==
    [body EXCEPT !.status = Undefined, !.completedAt = NoDate]

\* --------------------------------------------------------------- service
\* if (!task) throw new Error("Task not found")
NeverNotFound(task) == FALSE
TaskNotFound(task) == task = NoDoc

\* task.status = "Completed"; task.completedAt = completedAt
ToggleTaskStatus(task, completedAt) ==
    [status      |-> IF task.status = "Completed" THEN "Pending" ELSE "Completed",
     completedAt |-> completedAt]
KeepFirstCompletion(task, completedAt) ==
    [status      |-> "Completed",
     completedAt |-> IF task.status = "Completed" THEN task.completedAt
                     ELSE completedAt]
UpdateTaskStatus(task, completedAt) ==
    [status |-> "Completed", completedAt |-> completedAt]

\* if (!task || task.status !== "Completed") throw ...
DeleteAnyStatus(task) == task # NoDoc
DeleteAllowed(task) == task # NoDoc /\ task.status = "Completed"

\* ------------------------------------------------------- request inputs
BaseBody ==
    [customerName |-> "Acme", location |-> "12 Elm St", taskType |-> "Repair",
     scheduledTime |-> 1, notes |-> Undefined,
     status |-> Undefined, completedAt |-> NoDate]

\* bodies that pass validation; the last one carries fields no client
\* is meant to send
ValidBodies ==
    {BaseBody, [BaseBody EXCEPT !.status = "Completed", !.completedAt = 2]}

\* bodies with one defect each
DefectiveBodies ==
    {[BaseBody EXCEPT !.customerName = v] : v \in {Undefined, "", "  "}}
    \cup {[BaseBody EXCEPT !.location = v] : v \in {Undefined, ""}}
    \cup {[BaseBody EXCEPT !.taskType = v] : v \in {Undefined, "", "Plumbing"}}
    \cup {[BaseBody EXCEPT !.scheduledTime = v] : v \in {NoDate, BadDate}}

CreateBodies == ValidBodies \cup DefectiveBodies

\* completedAt of a PATCH body: an instant, nothing, or not a date
CompletedAtInputs == Times \cup {NoDate, BadDate}

\* ----------------------------------------------------------------- state
VARIABLES
    store,       \* the Task collection: _id -> document
    nextId,      \* the next fresh _id
    inflight,    \* persistence calls awaiting the database's answer
    last,        \* the HTTP exchange answered most recently
    race         \* two requests sent to the API without waiting (or none)

vars == <<store, nextId, inflight, last>>

\* the front end and the scenarios studied on their own
VARIABLES
    tasks,          \* TodayTasksComponent.tasks, the cache
    isLoading,      \* TodayTasksComponent.isLoading
    errorMessage,   \* TodayTasksComponent.errorMessage
    alertMsg,       \* the alert() shown most recently
    http,           \* requests of single calls awaiting their answer
    bulk,           \* the deleteMultipleTasks pipeline
    actions,        \* user gestures so far
    sortCall,       \* one call of sortTasks followed by a call on its result
    dropped         \* ids a task card's delete took out of the cache

clientVars == <<tasks, isLoading, errorMessage, alertMsg, http, bulk, actions>>
allVars == <<vars, clientVars, sortCall, race, dropped>>

\* what a step of the API leaves alone
ApiFrame == UNCHANGED <<clientVars, sortCall, race, dropped>>

FindById(id) == IF id \in DOMAIN store THEN store[id] ELSE NoDoc
Stored(i) == i \in DOMAIN store
StoredNext(i) == i \in DOMAIN store'

\* the persistence layer takes another call; the two requests of a race
\* are always taken
CanStart == Cardinality(inflight) < MaxInFlight \/ race # NoCall

Init ==
    /\ store = << >>
    /\ nextId = 1
    /\ inflight = {}
    /\ last = [kind |-> "none"]

\* ------------------------------------------------------- POST /api/tasks
\* createTask -> createNewTask up to `await task.save()`
CreateTask(body) ==
    LET task == NewTask(PickFields(body)) IN
    IF ValidateSync(task)
    THEN /\ last' = [kind |-> "create", code |-> 500, body |-> body]
         /\ UNCHANGED <<store, nextId, inflight>>
    ELSE /\ CanStart
         /\ nextId <= MaxIds
         /\ inflight' = inflight \cup
                {[op |-> "createSave", id |-> nextId, doc |-> task, body |-> body]}
         /\ nextId' = nextId + 1
         /\ UNCHANGED <<store, last>>

\* task.save() resolved: .then(log), then res.status(201)
CreateSaveResolved(c) ==
    /\ c.op = "createSave"
    /\ store' = [i \in DOMAIN store \cup {c.id} |->
                    IF i = c.id THEN c.doc ELSE store[i]]
    /\ last' = [kind |-> "create", code |-> 201, body |-> c.body, id |-> c.id]
    /\ inflight' = inflight \ {c}
    /\ UNCHANGED nextId

\* task.save() rejected: .catch(log) swallows it, then res.status(201)
CreateSaveRejected(c) ==
    /\ c.op = "createSave"
    /\ last' = [kind |-> "create", code |-> 201, body |-> c.body, id |-> c.id]
    /\ inflight' = inflight \ {c}
    /\ UNCHANGED <<store, nextId>>

\* -------------------------------------------------------- GET /api/tasks
\* fetchAllTasks -> getAllTasks: Task.find() resolved
FetchAllTasks ==
    /\ last' = [kind |-> "list", code |-> 200, tasks |-> store]
    /\ UNCHANGED <<store, nextId, inflight>>

\* Task.find() rejected
FetchAllTasksError ==
    /\ last' = [kind |-> "list", code |-> 500]
    /\ UNCHANGED <<store, nextId, inflight>>

\* -------------------------------------------------- PATCH /api/tasks/:id
\* updateTask -> updateTaskStatus from the resolution of findById on:
\* the save is started, not awaited, and the response is sent
UpdateTask(id, completedAt) ==
    LET task == FindById(id) IN
    IF TaskNotFound(task)
    THEN /\ last' = [kind |-> "update", code |-> 500, id |-> id]
         /\ UNCHANGED <<store, nextId, inflight>>
    ELSE /\ CanStart
         /\ inflight' = inflight \cup
                {[op |-> "updateSave", id |-> id,
                  set |-> UpdateTaskStatus(task, completedAt)]}
         /\ last' = [kind |-> "update", code |-> 200, id |-> id, t |-> completedAt]
         /\ UNCHANGED <<store, nextId>>

\* Task.findById rejected: the await throws, the controller answers 500
UpdateTaskFindError(id) ==
    /\ last' = [kind |-> "update", code |-> 500, id |-> id]
    /\ UNCHANGED <<store, nextId, inflight>>

\* the same save if it inserted the document it no longer finds
UpdateSaveUpserts(c) ==
    /\ c.op = "updateSave"
    /\ OptionalDate(c.set.completedAt)
    /\ store' = [i \in DOMAIN store \cup {c.id} |->
                    IF i = c.id
                    THEN [NewTask(PickFields(BaseBody)) EXCEPT
                             !.status = c.set.status,
                             !.completedAt = c.set.completedAt]
                    ELSE store[i]]
    /\ inflight' = inflight \ {c}
    /\ UNCHANGED <<nextId, last>>
\* the detached task.save() resolved
UpdateSaveResolved(c) ==
    /\ c.op = "updateSave"
    /\ c.id \in DOMAIN store
    /\ OptionalDate(c.set.completedAt)
    /\ store' = [store EXCEPT ![c.id] =
                    [@ EXCEPT !.status = c.set.status,
                              !.completedAt = c.set.completedAt]]
    /\ inflight' = inflight \ {c}
    /\ UNCHANGED <<nextId, last>>

\* the detached task.save() rejected (validation, document gone, database):
\* .catch(log)
UpdateSaveRejected(c) ==
    /\ c.op = "updateSave"
    /\ inflight' = inflight \ {c}
    /\ UNCHANGED <<store, nextId, last>>

\* ------------------------------------------------- DELETE /api/tasks/:id
\* deleteGivenTask -> deleteTask: the findById chain is started, not
\* awaited; deleteTask resolves at once and the response is sent
DeleteGivenTask(id) ==
    /\ CanStart
    /\ inflight' = inflight \cup {[op |-> "deleteFind", id |-> id]}
    /\ last' = [kind |-> "delete", code |-> 200, id |-> id]
    /\ UNCHANGED <<store, nextId>>

\* .then(task => ...): the precondition throws into .catch(log), or
\* findByIdAndDelete is started
DeleteFindResolved(c) ==
    /\ c.op = "deleteFind"
    /\ IF DeleteAllowed(FindById(c.id))
       THEN inflight' = (inflight \ {c}) \cup {[op |-> "deleteRemove", id |-> c.id]}
       ELSE inflight' = inflight \ {c}
    /\ UNCHANGED <<store, nextId, last>>

\* Task.findById rejected: .catch(log)
DeleteFindRejected(c) ==
    /\ c.op = "deleteFind"
    /\ inflight' = inflight \ {c}
    /\ UNCHANGED <<store, nextId, last>>

\* Task.findByIdAndDelete resolved
DeleteRemoveResolved(c) ==
    /\ c.op = "deleteRemove"
    /\ store' = [i \in DOMAIN store \ {c.id} |-> store[i]]
    /\ inflight' = inflight \ {c}
    /\ UNCHANGED <<nextId, last>>

\* Task.findByIdAndDelete rejected: .catch(log)
DeleteRemoveRejected(c) ==
    /\ c.op = "deleteRemove"
    /\ inflight' = inflight \ {c}
    /\ UNCHANGED <<store, nextId, last>>

\* ------------------------------------------------------------------ Next
Next ==
    \/ \E b \in CreateBodies : CreateTask(b) /\ ApiFrame
    \/ \E c \in inflight : CreateSaveResolved(c) /\ ApiFrame
    \/ \E c \in inflight : CreateSaveRejected(c) /\ ApiFrame
    \/ FetchAllTasks /\ ApiFrame
    \/ FetchAllTasksError /\ ApiFrame
    \/ \E id \in Ids, t \in CompletedAtInputs : UpdateTask(id, t) /\ ApiFrame
    \/ \E id \in Ids : UpdateTaskFindError(id) /\ ApiFrame
    \/ \E c \in inflight : UpdateSaveResolved(c) /\ ApiFrame
    \/ \E c \in inflight : UpdateSaveRejected(c) /\ ApiFrame
    \/ \E id \in Ids : DeleteGivenTask(id) /\ ApiFrame
    \/ \E c \in inflight : DeleteFindResolved(c) /\ ApiFrame
    \/ \E c \in inflight : DeleteFindRejected(c) /\ ApiFrame
    \/ \E c \in inflight : DeleteRemoveResolved(c) /\ ApiFrame
    \/ \E c \in inflight : DeleteRemoveRejected(c) /\ ApiFrame

TypeOK ==
    /\ DOMAIN store \subseteq Ids
    /\ nextId \in 1 .. MaxIds + 1
    /\ \A i \in DOMAIN store : store[i].status \in StatusEnum

\* ====================================================================
\* Front end: TodayTasksComponent (today-tasks.component.ts), TaskService
\* (task.service.ts) and TaskCardComponent (task-card.component.ts).
\*
\* A subscriber callback runs to its end once it is called, so one action
\* is one user gesture up to the requests it sends, or one answer together
\* with everything the callbacks do on it.
\* ====================================================================

\* ---------------------------------------------------------------- bounds
MaxLen == 3          \* length of the lists handed to sortTasks on its own
MaxTasks == 2        \* tasks the server can list to the component
MaxActions == 3      \* user gestures in one run of the component
MaxBulk == 4         \* cache entries when a bulk clear is studied on its own

\* ------------------------------------------------------------- task.model
\* scheduledTime as the JSON carries it: an ISO string, here <<hour, minute>>
ScheduledTimes == {<<8, 30>>, <<9, 0>>}

\* new Date(iso).getTime()
GetTime(iso) == iso[1] * 60 + iso[2]

\* a Task as the component holds it
ClientTask(id, scheduledTime, status, completedAt) ==
    [_id |-> id, scheduledTime |-> scheduledTime,
     status |-> status, completedAt |-> completedAt]

\* ------------------------------------------------------------- sortTasks
\* the comparator handed to sort()
CompareByTime(a, b) ==
    GetTime(a.scheduledTime) - GetTime(b.scheduledTime)
Compare(a, b) ==
    IF a.status # b.status
    THEN IF a.status = "Pending" THEN 0 - 1 ELSE 1
    ELSE GetTime(a.scheduledTime) - GetTime(b.scheduledTime)

\* Array.prototype.sort is stable: an element goes in front of the first
\* one the comparator puts strictly after it
RECURSIVE InsertSorted(_, _)
InsertSorted(x, s) ==
    IF s = << >> THEN <<x>>
    ELSE IF Compare(x, Head(s)) < 0 THEN <<x>> \o s
    ELSE <<Head(s)>> \o InsertSorted(x, Tail(s))

RECURSIVE ArraySort(_)
ArraySort(s) ==
    IF s = << >> THEN << >>
    ELSE InsertSorted(s[Len(s)], ArraySort(SubSeq(s, 1, Len(s) - 1)))

\* sortTasks(tasks): `ret` is the array returned, `arg` is what the array
\* passed in holds after the call
sortTasksInPlace(list) ==
    [arg |-> ArraySort(list), ret |-> ArraySort(list)]
sortTasks(list) ==
    [arg |-> list, ret |-> ArraySort(list)]

\* ---------------------------------------------- sortTasks on its own
SortIds == 1 .. MaxLen
SortTasks ==
    {ClientTask(i, st, status, IF status = "Completed" THEN 1 ELSE NoDate) :
        i \in SortIds, st \in ScheduledTimes, status \in StatusEnum}

\* lists of tasks with distinct ids, in any order
TaskLists ==
    {l \in UNION {[1 .. n -> SortTasks] : n \in 0 .. MaxLen} :
        \A i, j \in DOMAIN l : i # j => l[i]._id # l[j]._id}

SortInit ==
    sortCall \in {[phase |-> "input", input |-> l, arg |-> l,
                   once |-> << >>, twice |-> << >>] : l \in TaskLists}

\* once = sortTasks(list)
SortOnce ==
    /\ sortCall.phase = "input"
    /\ LET r == sortTasks(sortCall.arg) IN
        sortCall' = [sortCall EXCEPT !.phase = "once", !.arg = r.arg,
                                     !.once = r.ret]

\* twice = sortTasks(once)
SortTwice ==
    /\ sortCall.phase = "once"
    /\ LET r == sortTasks(sortCall.once) IN
        sortCall' = [sortCall EXCEPT !.phase = "twice", !.twice = r.ret]

\* ------------------------------------------------------------ TaskService
BulkConcurrency == 3     \* mergeMap(..., 3)

\* handleError: the message of the Error the observable fails with
HandleErrorSilent(status) == ""
HandleError(status) ==
    CASE status = 0 -> "Unable to connect to server. Please check your connection."
      [] status = 400 -> "Invalid request data"
      [] status = 404 -> "Task not found"
      [] status = 500 -> "Server error. Please try again later."
      [] OTHER -> "An unexpected error occurred"

\* the statuses a failed exchange is tried with
ErrorStatuses == {0, 500}

\* mergeMap: how many buffered ids are subscribed to now
Min(a, b) == IF a < b THEN a ELSE b
AdmitAll(queue, active) == Len(queue)
Admit(queue, active) ==
    Min(Len(queue), BulkConcurrency - Cardinality(active))

\* the pipeline after mergeMap has taken what it may from the buffer
Subscribe(b) ==
    LET n == Admit(b.queue, b.active) IN
    [b EXCEPT !.queue = SubSeq(b.queue, n + 1, Len(b.queue)),
              !.active = b.active \cup {b.queue[k] : k \in 1 .. n},
              !.sent = b.sent \o SubSeq(b.queue, 1, n)]

\* deleteMultipleTasks(taskIds) on subscription: from(taskIds) hands every
\* id to mergeMap at once; `results` is what toArray has collected, `sent`
\* the DELETE requests issued
DeleteMultipleTasks(taskIds) ==
    Subscribe([phase |-> "running", ids |-> taskIds, queue |-> taskIds,
               active |-> {}, results |-> << >>, sent |-> << >>])

\* ---------------------------------------------------- TodayTasksComponent
NoAlert == [prefix |-> "", message |-> ""]
Alert(prefix, message) == [prefix |-> prefix, message |-> message]

\* what the server can list: task i keeps the scheduledTime it was created with
ClientIds == 1 .. MaxTasks
SchedOf(i) == IF i % 2 = 1 THEN <<9, 0>> ELSE <<8, 30>>
Listed(i) ==
    {ClientTask(i, SchedOf(i), "Pending", NoDate)}
    \cup {ClientTask(i, SchedOf(i), "Completed", t) : t \in Times}
FetchResults ==
    {l \in UNION {[1 .. n -> UNION {Listed(i) : i \in ClientIds}] : n \in 0 .. MaxTasks} :
        \A i, j \in DOMAIN l : i # j => l[i]._id # l[j]._id}

CachedIds == {tasks[k]._id : k \in DOMAIN tasks}
IsCompleted(t) == t.status = "Completed"
NotCompleted(t) == t.status # "Completed"

\* this.tasks.findIndex(t => t._id === taskId): 0-based, -1 when absent
FindIndex(list, taskId) ==
    IF \E k \in DOMAIN list : list[k]._id = taskId
    THEN (CHOOSE k \in DOMAIN list :
             /\ list[k]._id = taskId
             /\ \A m \in 1 .. k - 1 : list[m]._id # taskId) - 1
    ELSE 0 - 1

\* the next callback of onTaskComplete: the new value of this.tasks
CompleteWithoutStamp(list, taskId, completedAt) ==
    LET index == FindIndex(list, taskId) IN
    IF index # 0 - 1
    THEN sortTasks([list EXCEPT ![index + 1] =
             [@ EXCEPT !.status = "Completed"]]).ret
    ELSE list
CompleteInCache(list, taskId, completedAt) ==
    LET index == FindIndex(list, taskId) IN
    IF index # 0 - 1
    THEN sortTasks([list EXCEPT ![index + 1] =
             [@ EXCEPT !.status = "Completed", !.completedAt = completedAt]]).ret
    ELSE list

\* this.tasks.filter(t => t._id !== taskId)
RemoveFromCache(list, taskId) == SelectSeq(list, LAMBDA t : t._id # taskId)

\* a user gesture is counted
Gesture ==
    /\ actions < MaxActions
    /\ actions' = actions + 1

\* loadTasks(), up to the subscription
LoadTasks ==
    /\ Gesture
    /\ [kind |-> "get"] \notin http
    /\ isLoading' = TRUE
    /\ errorMessage' = ""
    /\ http' = http \cup {[kind |-> "get"]}
    /\ UNCHANGED <<tasks, alertMsg, bulk>>

\* getTodayTasks() answered: next
GetTodayTasksNext(list) ==
    /\ [kind |-> "get"] \in http
    /\ tasks' = sortTasks(list).ret
    /\ isLoading' = FALSE
    /\ http' = http \ {[kind |-> "get"]}
    /\ UNCHANGED <<errorMessage, alertMsg, bulk, actions>>

\* the same callback if it forgot the flag
GetTodayTasksErrorKeepsLoading(status) ==
    /\ [kind |-> "get"] \in http
    /\ errorMessage' = HandleError(status)
    /\ http' = http \ {[kind |-> "get"]}
    /\ UNCHANGED <<tasks, isLoading, alertMsg, bulk, actions>>
\* getTodayTasks() failed: error
GetTodayTasksError(status) ==
    /\ [kind |-> "get"] \in http
    /\ errorMessage' = HandleError(status)
    /\ isLoading' = FALSE
    /\ http' = http \ {[kind |-> "get"]}
    /\ UNCHANGED <<tasks, alertMsg, bulk, actions>>

\* a task card's confirmComplete -> onTaskComplete, up to the subscription;
\* the card opens its modal only for a task that is not Completed
OnTaskComplete(taskId, completedAt) ==
    /\ Gesture
    /\ \E k \in DOMAIN tasks : tasks[k]._id = taskId /\ NotCompleted(tasks[k])
    /\ [kind |-> "patch", id |-> taskId, completedAt |-> completedAt] \notin http
    /\ http' = http \cup
           {[kind |-> "patch", id |-> taskId, completedAt |-> completedAt]}
    /\ UNCHANGED <<tasks, isLoading, errorMessage, alertMsg, bulk>>

\* completeTask() answered: next
CompleteTaskNext(r) ==
    /\ r.kind = "patch"
    /\ tasks' = CompleteInCache(tasks, r.id, r.completedAt)
    /\ http' = http \ {r}
    /\ UNCHANGED <<isLoading, errorMessage, alertMsg, bulk, actions>>

\* completeTask() failed: error
CompleteTaskError(r, status) ==
    /\ r.kind = "patch"
    /\ alertMsg' = Alert("Failed to complete task: ", HandleError(status))
    /\ http' = http \ {r}
    /\ UNCHANGED <<tasks, isLoading, errorMessage, bulk, actions>>

\* a task card's confirmDelete -> onTaskDelete, up to the subscription; the
\* card offers it for a task of any status
OnTaskDelete(taskId) ==
    /\ Gesture
    /\ taskId \in CachedIds
    /\ [kind |-> "delete", id |-> taskId] \notin http
    /\ http' = http \cup {[kind |-> "delete", id |-> taskId]}
    /\ UNCHANGED <<tasks, isLoading, errorMessage, alertMsg, bulk>>

\* deleteTask() answered: next
DeleteTaskNext(r) ==
    /\ r.kind = "delete"
    /\ tasks' = RemoveFromCache(tasks, r.id)
    /\ http' = http \ {r}
    /\ UNCHANGED <<isLoading, errorMessage, alertMsg, bulk, actions>>

\* deleteTask() failed: error
DeleteTaskError(r, status) ==
    /\ r.kind = "delete"
    /\ alertMsg' = Alert("Failed to delete task: ", HandleError(status))
    /\ http' = http \ {r}
    /\ UNCHANGED <<tasks, isLoading, errorMessage, bulk, actions>>

\* onClearCompleted(), up to the subscription: nothing Completed, or the
\* user declines, or the pipeline is started
OnClearCompleted(confirmed) ==
    LET completedTasks == SelectSeq(tasks, IsCompleted)
        completedIds == [k \in DOMAIN completedTasks |-> completedTasks[k]._id]
    IN
    /\ Gesture
    /\ bulk.phase = "idle"
    /\ IF Len(completedTasks) = 0 \/ ~confirmed
       THEN UNCHANGED <<isLoading, bulk>>
       ELSE /\ isLoading' = TRUE
            /\ bulk' = DeleteMultipleTasks(completedIds)
    /\ UNCHANGED <<tasks, errorMessage, alertMsg, http>>

\* the same step without the inner catchError: a failure ends the pipeline
DeleteOfBulkAborts(id, ok) ==
    /\ bulk.phase = "running"
    /\ id \in bulk.active
    /\ LET b == Subscribe([bulk EXCEPT
                    !.active = bulk.active \ {id},
                    !.results = Append(bulk.results, [id |-> id, ok |-> ok])])
       IN
       IF ~ok \/ (b.queue = << >> /\ b.active = {})
       THEN /\ tasks' = IF ok THEN SelectSeq(tasks, NotCompleted) ELSE tasks
            /\ isLoading' = FALSE
            /\ bulk' = [phase |-> "idle"]
       ELSE /\ bulk' = b
            /\ UNCHANGED <<tasks, isLoading>>
    /\ UNCHANGED <<errorMessage, alertMsg, http, actions>>
\* one deleteTask() of the pipeline answered or failed: catchError turns a
\* failure into a value, mergeMap subscribes to the next buffered id, and
\* when nothing is buffered or in flight toArray emits: next, then finalize
DeleteOfBulkSettled(id, ok) ==
    /\ bulk.phase = "running"
    /\ id \in bulk.active
    /\ LET b == Subscribe([bulk EXCEPT
                    !.active = bulk.active \ {id},
                    !.results = Append(bulk.results, [id |-> id, ok |-> ok])])
       IN
       IF b.queue = << >> /\ b.active = {}
       THEN /\ tasks' = SelectSeq(tasks, NotCompleted)
            /\ isLoading' = FALSE
            /\ bulk' = [phase |-> "idle"]
       ELSE /\ bulk' = b
            /\ UNCHANGED <<tasks, isLoading>>
    /\ UNCHANGED <<errorMessage, alertMsg, http, actions>>

\* what a step of the component leaves alone
ClientFrame == UNCHANGED <<vars, sortCall, race, dropped>>

ClientNext ==
    \/ LoadTasks /\ ClientFrame
    \/ \E l \in FetchResults : GetTodayTasksNext(l) /\ ClientFrame
    \/ \E st \in ErrorStatuses : GetTodayTasksError(st) /\ ClientFrame
    \/ \E id \in ClientIds, t \in Times : OnTaskComplete(id, t) /\ ClientFrame
    \/ \E r \in http : CompleteTaskNext(r) /\ ClientFrame
    \/ \E r \in http, st \in ErrorStatuses : CompleteTaskError(r, st) /\ ClientFrame
    \/ \E id \in ClientIds : OnTaskDelete(id) /\ ClientFrame
    \/ \E r \in http : DeleteTaskNext(r) /\ ClientFrame
    \/ \E r \in http, st \in ErrorStatuses : DeleteTaskError(r, st) /\ ClientFrame
    \/ \E c \in BOOLEAN : OnClearCompleted(c) /\ ClientFrame
    \/ \E id \in ClientIds, ok \in BOOLEAN : DeleteOfBulkSettled(id, ok) /\ ClientFrame

\* -------------------------------------------------------- specifications
\* the component as constructed, before ngOnInit
ClientInit ==
    /\ tasks = << >>
    /\ isLoading = TRUE
    /\ errorMessage = ""
    /\ alertMsg = NoAlert
    /\ http = {}
    /\ bulk = [phase |-> "idle"]
    /\ actions = 0

\* the API on its own
ApiInit ==
    /\ Init /\ ClientInit /\ sortCall = NoCall /\ race = NoCall /\ dropped = {}
Spec == ApiInit /\ [][Next]_allVars

\* sortTasks on its own
SortSpecInit ==
    /\ Init /\ ClientInit /\ SortInit /\ race = NoCall /\ dropped = {}
SortFrame == UNCHANGED <<vars, clientVars, race, dropped>>
SortNext ==
    \/ SortOnce /\ SortFrame
    \/ SortTwice /\ SortFrame
SpecSort == SortSpecInit /\ [][SortNext]_allVars

\* the component against a server that may answer anything
ClientSpecInit ==
    /\ Init /\ ClientInit /\ sortCall = NoCall /\ race = NoCall /\ dropped = {}
SpecClient == ClientSpecInit /\ [][ClientNext]_allVars

\* a bulk clear on its own: the cache as a fetch of MaxBulk tasks left it
BulkIds == 1 .. MaxBulk
BulkCaches ==
    {sortTasks([i \in BulkIds |->
                   IF i \in done
                   THEN ClientTask(i, SchedOf(i), "Completed", 1)
                   ELSE ClientTask(i, SchedOf(i), "Pending", NoDate)]).ret :
        done \in SUBSET BulkIds}
BulkInit ==
    /\ Init /\ sortCall = NoCall /\ race = NoCall /\ dropped = {}
    /\ tasks \in BulkCaches
    /\ isLoading = FALSE
    /\ errorMessage = ""
    /\ alertMsg = NoAlert
    /\ http = {}
    /\ bulk = [phase |-> "idle"]
    /\ actions = 0
BulkNext ==
    \/ \E c \in BOOLEAN : OnClearCompleted(c) /\ ClientFrame
    \/ \E id \in BulkIds, ok \in BOOLEAN : DeleteOfBulkSettled(id, ok) /\ ClientFrame
SpecBulk == BulkInit /\ [][BulkNext]_allVars

\* the loading flag: the component from its construction, or with a cache
\* of MaxBulk tasks and one gesture left, with the two methods that raise
\* the flag and the answers to what they send, every request being answered
\* in the end, well or badly.  The card handlers are left out: they touch
\* neither the flag, nor the fetch, nor a pipeline that is running.  The
\* lists are in the order of _id and stamped 1: a list matters to the flag
\* only through the entries that are Completed.
LoadedInit ==
    /\ Init /\ sortCall = NoCall /\ race = NoCall /\ dropped = {}
    /\ tasks \in BulkCaches
    /\ isLoading = FALSE
    /\ errorMessage = ""
    /\ alertMsg = NoAlert
    /\ http = {}
    /\ bulk = [phase |-> "idle"]
    /\ actions = MaxActions - 1
LoadingInit == ClientSpecInit \/ LoadedInit
LoadingFetchResults ==
    {l \in FetchResults :
        /\ \A i, j \in DOMAIN l : i < j => l[i]._id < l[j]._id
        /\ \A k \in DOMAIN l : l[k].completedAt \in {NoDate, 1}}
GetAnswered ==
    /\ \/ \E l \in LoadingFetchResults : GetTodayTasksNext(l)
       \/ \E st \in ErrorStatuses : GetTodayTasksError(st)
    /\ ClientFrame
BulkAnswered ==
    /\ \E id \in BulkIds, ok \in BOOLEAN : DeleteOfBulkSettled(id, ok)
    /\ ClientFrame
LoadingNext ==
    \/ LoadTasks /\ ClientFrame
    \/ \E c \in BOOLEAN : OnClearCompleted(c) /\ ClientFrame
    \/ GetAnswered
    \/ BulkAnswered
SpecLoading ==
    /\ LoadingInit
    /\ [][LoadingNext]_allVars
    /\ WF_allVars(GetAnswered)
    /\ WF_allVars(BulkAnswered)

\* ------------------------------------------- two requests on one record
\* the record as a create left it, and as a completion at instant 1 left it
PendingDoc == NewTask(PickFields(BaseBody))
CompletedDoc(t) == [PendingDoc EXCEPT !.status = "Completed", !.completedAt = t]

CompleteRequests == {[op |-> "complete", t |-> t] : t \in Times}
DeleteRequest == [op |-> "delete"]

\* a Complete with a Delete, or two Completes, on the record with _id 1
RaceInit ==
    /\ ClientInit /\ sortCall = NoCall /\ dropped = {}
    /\ nextId = 2
    /\ inflight = {}
    /\ last = [kind |-> "none"]
    /\ \E doc \in {PendingDoc, CompletedDoc(1)},
          r1 \in CompleteRequests, r2 \in CompleteRequests \cup {DeleteRequest} :
          /\ store = <<doc>>
          /\ race = [phase |-> "racing", doc |-> doc, reqs |-> <<r1, r2>>,
                     sent |-> {}]

\* request k reaches its handler
RaceSend(k) ==
    /\ k \notin race.sent
    /\ race' = [race EXCEPT !.sent = race.sent \cup {k}]
    /\ IF race.reqs[k].op = "complete"
       THEN UpdateTask(1, race.reqs[k].t)
       ELSE DeleteGivenTask(1)

RaceFrame == UNCHANGED <<clientVars, sortCall, race, dropped>>

\* the database answers; a save fails only when its document is gone
RaceNext ==
    \/ \E k \in 1 .. 2 : RaceSend(k) /\ UNCHANGED <<clientVars, sortCall, dropped>>
    \/ \E c \in inflight : UpdateSaveResolved(c) /\ RaceFrame
    \/ \E c \in inflight : UpdateSaveRejected(c) /\ ~Stored(c.id) /\ RaceFrame
    \/ \E c \in inflight : DeleteFindResolved(c) /\ RaceFrame
    \/ \E c \in inflight : DeleteRemoveResolved(c) /\ RaceFrame

SpecRace == RaceInit /\ [][RaceNext]_allVars

\* ------------------------------------- the component against the API
\* res.json(tasks): a Date goes out as its ISO string
ToISOString(instant) == IF instant = 1 THEN <<8, 30>> ELSE <<9, 0>>
ToJSON(id, doc) ==
    ClientTask(id, ToISOString(doc.scheduledTime), doc.status, doc.completedAt)

\* Task.find(): the documents in the order of their _id
StoreAsList ==
    [k \in 1 .. Cardinality(DOMAIN store) |->
        LET id == CHOOSE i \in DOMAIN store :
                      Cardinality({j \in DOMAIN store : j < i}) = k - 1
        IN ToJSON(id, store[id])]

\* the collection after some creates, completions and removals
EndToEndInit ==
    /\ ClientInit /\ sortCall = NoCall /\ race = NoCall /\ dropped = {}
    /\ nextId = MaxIds + 1
    /\ inflight = {}
    /\ last = [kind |-> "none"]
    /\ \E S \in SUBSET Ids :
          store \in [S -> {PendingDoc} \cup {CompletedDoc(t) : t \in Times}]

\* GET /api/tasks from request to callback
GetExchange ==
    /\ FetchAllTasks
    /\ GetTodayTasksNext(StoreAsList)
    /\ UNCHANGED dropped

\* PATCH /api/tasks/:id from request to callback
PatchExchange(r) ==
    /\ r.kind = "patch"
    /\ UpdateTask(r.id, r.completedAt)
    /\ IF Stored(r.id) THEN CompleteTaskNext(r) ELSE CompleteTaskError(r, 500)
    /\ UNCHANGED dropped

\* DELETE /api/tasks/:id from request to callback
DeleteExchange(r) ==
    /\ r.kind = "delete"
    /\ DeleteGivenTask(r.id)
    /\ DeleteTaskNext(r)
    /\ dropped' = dropped \cup ({r.id} \cap CachedIds)

GestureFrame == UNCHANGED <<vars, sortCall, race, dropped>>
DatabaseFrame == UNCHANGED <<clientVars, sortCall, race, dropped>>

EndToEndNext ==
    \/ LoadTasks /\ GestureFrame
    \/ \E id \in Ids, t \in Times : OnTaskComplete(id, t) /\ GestureFrame
    \/ \E id \in Ids : OnTaskDelete(id) /\ GestureFrame
    \/ GetExchange /\ UNCHANGED <<sortCall, race>>
    \/ \E r \in http : PatchExchange(r) /\ UNCHANGED <<sortCall, race>>
    \/ \E r \in http : DeleteExchange(r) /\ UNCHANGED <<sortCall, race>>
    \/ \E c \in inflight : UpdateSaveResolved(c) /\ DatabaseFrame
    \/ \E c \in inflight : UpdateSaveRejected(c) /\ DatabaseFrame
    \/ \E c \in inflight : DeleteFindResolved(c) /\ DatabaseFrame
    \/ \E c \in inflight : DeleteRemoveResolved(c) /\ DatabaseFrame

SpecEndToEnd == EndToEndInit /\ [][EndToEndNext]_allVars

\* a request run alone, from its first line to the last database answer
Serial(req, doc) ==
    IF req.op = "complete"
    THEN IF TaskNotFound(doc) THEN doc
         ELSE [doc EXCEPT !.status = UpdateTaskStatus(doc, req.t).status,
                          !.completedAt = UpdateTaskStatus(doc, req.t).completedAt]
    ELSE IF DeleteAllowed(doc) THEN NoDoc ELSE doc

\* ---------------------------------------------------------------- claims
\* the step answers an exchange of the given kind
Answered(kind) == last' # last /\ last'.kind = kind


\* C1: once Complete(id, t), t an instant, is answered 200, the stored
\* record is Completed with completedAt = t (what any later ListAll reads).
C1_CompleteSuccessIsStored ==
    [][ (Answered("update") /\ last'.code = 200 /\ last'.t \in Times)
        => /\ StoredNext(last'.id)
           /\ store'[last'.id].status = "Completed"
           /\ store'[last'.id].completedAt = last'.t ]_vars

\* C2: for every stored task, completedAt is set exactly when status is
\* Completed.
C2_CompletedAtIffCompleted ==
    \A i \in DOMAIN store :
        (store[i].completedAt # NoDate) <=> (store[i].status = "Completed")

\* C3: Delete(id) on a missing task or on a Pending task is answered with a
\* failure, not 200.
C3_DeleteFailureSurfaced ==
    [][ (/\ Answered("delete")
         /\ (~Stored(last'.id) \/ store[last'.id].status = "Pending"))
        => last'.code # 200 ]_vars

\* C4: a Pending record is never removed; a record leaves the store only
\* when a delete acts on it while it is Completed, and a delete whose check
\* finds the task Pending starts no removal and changes nothing.
C4_PendingNeverRemoved ==
    [][ /\ \A i \in DOMAIN store :
              store[i].status = "Pending" => StoredNext(i)
        /\ \A i \in DOMAIN store \ DOMAIN store' :
              /\ store[i].status = "Completed"
              /\ [op |-> "deleteRemove", id |-> i] \in inflight \ inflight'
        /\ \A c \in inflight \ inflight' :
              (c.op = "deleteFind" /\ Stored(c.id)
                  /\ store[c.id].status = "Pending")
              => /\ store' = store
                 /\ inflight' \subseteq inflight ]_vars

\* a delete on a Pending task was answered and has run its course, and the
\* record is still there
C4_Witness ==
    /\ last.kind = "delete"
    /\ Stored(last.id)
    /\ store[last.id].status = "Pending"
    /\ inflight = {}

\* C5: once Delete(id) of a Completed task is answered 200, the record is
\* gone from the store (what any later ListAll reads).
C5_DeleteSuccessIsRemoved ==
    [][ (/\ Answered("delete")
         /\ last'.code = 200
         /\ Stored(last'.id)
         /\ store[last'.id].status = "Completed")
        => ~StoredNext(last'.id) ]_vars

\* C6: a Create answered 201 has added exactly one new record; a Create
\* whose save failed is not answered 201.
C6_CreateSuccessAddsRecord ==
    [][ (Answered("create") /\ last'.code = 201)
        => /\ ~Stored(last'.id)
           /\ DOMAIN store' = DOMAIN store \cup {last'.id} ]_vars

\* C7: a record that enters the store is Pending with no completedAt,
\* whatever status or completedAt the request body carried.
C7_CreatedIsPending ==
    [][ \A i \in DOMAIN store' \ DOMAIN store :
            /\ store'[i].status = "Pending"
            /\ store'[i].completedAt = NoDate ]_vars

\* a create whose body said status Completed was stored as Pending
C7_Witness ==
    /\ last.kind = "create"
    /\ last.code = 201
    /\ last.body.status = "Completed"
    /\ last.body.completedAt # NoDate
    /\ Stored(last.id)
    /\ store[last.id].status = "Pending"
    /\ store[last.id].completedAt = NoDate

\* the defects C8 names, read off the request body
ClaimedDefect(body) ==
    \/ body.customerName = ""
    \/ body.location = ""
    \/ body.taskType \notin TaskTypeEnum
    \/ body.scheduledTime = NoDate

\* C8: a Create whose customerName or location is empty, whose taskType is
\* outside the enumeration or whose scheduledTime is absent is answered
\* with a failure, adds no record and starts no save.
C8_DefectiveCreateFails ==
    [][ (Answered("create") /\ ClaimedDefect(last'.body))
        => /\ last'.code = 500
           /\ store' = store
           /\ inflight' = inflight ]_vars

\* a defective create was refused while the store holds a record
C8_Witness ==
    /\ last.kind = "create"
    /\ last.code = 500
    /\ ClaimedDefect(last.body)
    /\ DOMAIN store # {}

\* C9: Complete(id, t) on an id that matches no record is answered with a
\* failure, changes no record and starts no save.
C9_CompleteMissingFails ==
    [][ (Answered("update") /\ ~Stored(last'.id))
        => /\ last'.code = 500
           /\ store' = store
           /\ inflight' = inflight ]_vars

\* a completion of a missing id was refused while the store holds a record
C9_Witness ==
    /\ last.kind = "update"
    /\ last.code = 500
    /\ ~Stored(last.id)
    /\ DOMAIN store # {}
    /\ inflight = {}

C11_RecompletionOverwrites ==
    [][ /\ (/\ Answered("update") /\ last'.code = 200 /\ last'.t \in Times
            /\ Stored(last'.id) /\ store[last'.id].status = "Completed")
           => [op |-> "updateSave", id |-> last'.id,
               set |-> [status |-> "Completed", completedAt |-> last'.t]]
                  \in inflight'
        /\ \A c \in inflight \ inflight' :
              (/\ c.op = "updateSave" /\ Stored(c.id)
               /\ store[c.id].status = "Completed" /\ store' # store)
              => store' = [store EXCEPT ![c.id].completedAt = c.set.completedAt]
       ]_vars

\* a Completed record stamped t1 whose completion with another instant t2 was
\* answered 200 and is about to be saved
C11_Witness ==
    /\ last.kind = "update"
    /\ last.code = 200
    /\ last.t \in Times
    /\ Stored(last.id)
    /\ store[last.id].status = "Completed"
    /\ store[last.id].completedAt \in Times \ {last.t}
    /\ [op |-> "updateSave", id |-> last.id,
        set |-> [status |-> "Completed", completedAt |-> last.t]] \in inflight

\* C18: sortTasks(sortTasks(list)) = sortTasks(list), and the list passed to
\* sortTasks holds after the call what it held before.
C18_SortIdempotentAndPure ==
    /\ sortCall.phase \in {"once", "twice"} => sortCall.arg = sortCall.input
    /\ sortCall.phase = "twice" => sortCall.twice = sortCall.once

\* a list that was out of order has been sorted twice
C18_Witness ==
    /\ sortCall.phase = "twice"
    /\ Len(sortCall.input) = MaxLen
    /\ sortCall.once # sortCall.input

\* the steps that start and that end a bulk clear
BulkStarts == bulk.phase = "idle" /\ bulk'.phase = "running"
BulkEnds == bulk.phase = "running" /\ bulk'.phase = "idle"
Range(q) == {q[k] : k \in DOMAIN q}
CachedIdsNext == {tasks'[k]._id : k \in DOMAIN tasks'}

\* C12: when a bulk clear ends, every task whose delete succeeded is out of
\* the cache, every task whose delete failed is still in it, and a failure
\* has been reported.
C12_BulkFailureKeepsEntry ==
    [][ BulkEnds =>
          \A k \in DOMAIN bulk.results :
             IF bulk.results[k].ok
             THEN bulk.results[k].id \notin CachedIdsNext
             ELSE /\ bulk.results[k].id \in CachedIdsNext
                  /\ alertMsg' # NoAlert ]_allVars

\* the DELETE requests of the pipeline awaiting their answer
BulkInFlight(b) == Range(b.sent) \ {b.results[k].id : k \in DOMAIN b.results}

\* C13: during a bulk clear at most 3 of its delete requests are in flight.
C13_AtMostThreeInFlight ==
    bulk.phase = "running" => Cardinality(BulkInFlight(bulk)) <= 3

\* three requests in flight and a fourth id waiting
C13_Witness ==
    /\ bulk.phase = "running"
    /\ Cardinality(BulkInFlight(bulk)) = 3
    /\ bulk.queue # << >>

\* every id of the batch is waiting, in flight or settled, and was sent at
\* most once; the pipeline is never stalled
BulkAccounted(b) ==
    /\ Len(b.sent) = Cardinality(Range(b.sent))
    /\ Range(b.sent) \cup Range(b.queue) = Range(b.ids)
    /\ Range(b.sent) \cap Range(b.queue) = {}
    /\ Len(b.results) = Cardinality({b.results[k].id : k \in DOMAIN b.results})
    /\ {b.results[k].id : k \in DOMAIN b.results} \subseteq Range(b.sent)
    /\ BulkInFlight(b) # {}
    /\ b.queue # << >> => Cardinality(BulkInFlight(b)) = 3

\* C14: a bulk clear takes the ids of exactly the entries that are Completed
\* when it starts and sends one delete request for each; a failed delete
\* does not keep the others from being sent; and the clear ends only with
\* the answer that settles the last id.
C14_OneRequestPerCompleted ==
    [][ /\ BulkStarts =>
              /\ Range(bulk'.ids) = {tasks[k]._id : k \in {m \in DOMAIN tasks :
                                        tasks[m].status = "Completed"}}
              /\ Len(bulk'.ids) = Cardinality(Range(bulk'.ids))
        /\ bulk'.phase = "running" => BulkAccounted(bulk')
        /\ BulkEnds =>
              /\ bulk.queue = << >>
              /\ Range(bulk.sent) = Range(bulk.ids)
              /\ Len(bulk.results) = Len(bulk.ids) - 1
              /\ Cardinality(BulkInFlight(bulk)) = 1 ]_allVars

\* a delete of the batch has failed and the id that was waiting has been
\* sent after it
C14_Witness ==
    /\ bulk.phase = "running"
    /\ Len(bulk.sent) > 3
    /\ \E k \in DOMAIN bulk.results : ~bulk.results[k].ok
    /\ BulkInFlight(bulk) # {}

\* C15: a failed fetch, completion or single deletion leaves the cache as
\* it was, shows the failure (errorMessage, or an alert with a message) and
\* sends nothing again; a user gesture sends at most one request.
C15_FailureLeavesCache ==
    [][ /\ \A st \in ErrorStatuses :
              GetTodayTasksError(st)
              => /\ tasks' = tasks
                 /\ errorMessage' # ""
                 /\ http' = http \ {[kind |-> "get"]}
                 /\ bulk' = bulk
        /\ \A r \in http, st \in ErrorStatuses :
              (CompleteTaskError(r, st) \/ DeleteTaskError(r, st))
              => /\ tasks' = tasks
                 /\ alertMsg'.prefix # ""
                 /\ alertMsg'.message # ""
                 /\ http' = http \ {r}
                 /\ bulk' = bulk
        /\ (actions' # actions /\ bulk' = bulk)
              => Cardinality(http') <= Cardinality(http) + 1 ]_allVars

\* a completion has failed: the alert is up, the task is still Pending in
\* the cache and nothing is awaiting an answer
C15_Witness ==
    /\ alertMsg.prefix = "Failed to complete task: "
    /\ alertMsg.message = HandleError(500)
    /\ http = {}
    /\ actions = 2
    /\ \E k \in DOMAIN tasks : tasks[k].status = "Pending"

\* C16: when a completion of id with t is answered, a cache that holds id
\* holds afterwards the same entries except that the one with that id is
\* Completed with completedAt = t, and a cache that does not hold id is not
\* changed.
C16_CompletionReplacesEntry ==
    [][ \A r \in http :
          CompleteTaskNext(r)
          => IF r.id \in CachedIds
             THEN /\ Len(tasks') = Len(tasks)
                  /\ CachedIdsNext = CachedIds
                  /\ \A k \in DOMAIN tasks :
                        \E m \in DOMAIN tasks' :
                           tasks'[m] =
                              IF tasks[k]._id = r.id
                              THEN [tasks[k] EXCEPT !.status = "Completed",
                                                    !.completedAt = r.completedAt]
                              ELSE tasks[k]
             ELSE tasks' = tasks ]_allVars

\* after a fetch and one completion, the cache holds a Pending entry and
\* behind it an entry Completed at the instant 2
C16_Witness ==
    /\ Len(tasks) = 2
    /\ tasks[1].status = "Pending"
    /\ tasks[2].status = "Completed"
    /\ tasks[2].completedAt = 2
    /\ actions = 2
    /\ http = {}
    /\ alertMsg = NoAlert

\* presentation order: Pending before Completed, and by scheduledTime within
\* a status
InPresentationOrder(list) ==
    \A i, j \in DOMAIN list :
        i < j =>
            /\ list[i].status = "Completed" => list[j].status = "Completed"
            /\ list[i].status = list[j].status
                  => GetTime(list[i].scheduledTime) <= GetTime(list[j].scheduledTime)

\* C17: the cache is in presentation order at all times.
C17_CacheInPresentationOrder == InPresentationOrder(tasks)

\* a Pending task scheduled at 9:00 stands before a Completed one scheduled
\* at 8:30
C17_Witness ==
    /\ Len(tasks) = 2
    /\ tasks[1].status = "Pending"
    /\ tasks[2].status = "Completed"
    /\ GetTime(tasks[1].scheduledTime) > GetTime(tasks[2].scheduledTime)

\* C19: when both requests have run their course, the record is what one
\* of the two serial orders leaves; and a record that is gone is not in the
\* store in the next state either.
C19_SerialOutcome ==
    [][ /\ (race'.sent = {1, 2} /\ inflight' = {})
           => \/ (IF StoredNext(1) THEN store'[1] ELSE NoDoc)
                    = Serial(race.reqs[2], Serial(race.reqs[1], race.doc))
              \/ (IF StoredNext(1) THEN store'[1] ELSE NoDoc)
                    = Serial(race.reqs[1], Serial(race.reqs[2], race.doc))
        /\ ~Stored(1) => ~StoredNext(1) ]_allVars

\* a Complete was answered 200 after the Delete was accepted, its save has
\* been turned down and the record is gone
C19_Witness ==
    /\ race # NoCall
    /\ race.sent = {1, 2}
    /\ race.reqs[2] = DeleteRequest
    /\ last.kind = "update"
    /\ last.code = 200
    /\ inflight = {}
    /\ ~Stored(1)

\* C20: with nothing awaiting an answer, in the component or in the API,
\* every task a card's delete took out of the cache is absent from the
\* store.
C20_DroppedIsDeleted ==
    (http = {} /\ inflight = {}) => \A i \in dropped : ~Stored(i)

\* C21: when isLoading is true with the fetch of loadTasks or the pipeline
\* of onClearCompleted awaiting answers, isLoading is false at some later
\* time, whether the answers are successes or failures.
C21_LoadingEnds ==
    (isLoading /\ ([kind |-> "get"] \in http \/ bulk.phase = "running"))
        ~> ~isLoading

\* a fetch has failed and the loading flag is down
C21_Witness ==
    /\ ~isLoading
    /\ errorMessage # ""
    /\ http = {}
    /\ bulk.phase = "idle"
====
